---------------------------- MODULE Spec2Model ----------------------------
(***************************************************************************)
(* The recurrence engine of Nexodo (server/recurrence.py): the pattern     *)
(* value object and RecurrenceCalculator, modelled over Python's naive     *)
(* datetime.  A datetime is the record of its fields; microseconds are     *)
(* left out (every replace() of the code sets them to 0 together with the  *)
(* seconds, and the instants drawn here carry none).                       *)
(***************************************************************************)
EXTENDS Integers, Sequences, FiniteSets, TLC

VARIABLES pattern, pc, after_date, result,
          start_date, end_date, max_count, occurrences, current_date, count,
          args, data, built, memo,
          templates, todos, now, nworkers, worker, tcall

\* The caller of the calculator, and the store with its generation passes.
calcvars == <<pattern, pc, after_date, result,
              start_date, end_date, max_count, occurrences, current_date, count,
              args, data, built, memo>>
genvars == <<templates, todos, now, nworkers, worker, tcall>>

vars == <<calcvars, genvars>>

(***************************************************************************)
(* Bounds of the model.                                                    *)
(***************************************************************************)
MaxInterval == 3
MaxCount == 3
WindowDays == 9

(***************************************************************************)
(* Python values.  None for an Optional[datetime] is a record no datetime  *)
(* equals; None for an Optional[int] is an integer no field value of the   *)
(* model takes.  Truthy is Python's truth value of an Optional[int].       *)
(***************************************************************************)
None == [none |-> TRUE]
NoneInt == -1000
ValueError == [raised |-> "ValueError"]

Truthy(x) == x # NoneInt /\ x # 0

(***************************************************************************)
(* The proleptic Gregorian calendar of the datetime module.                *)
(***************************************************************************)
IsLeap(y) == y % 4 = 0 /\ (y % 100 # 0 \/ y % 400 = 0)

DaysInMonth(y, m) ==
    IF m = 2 THEN (IF IsLeap(y) THEN 29 ELSE 28)
    ELSE IF m \in {4, 6, 9, 11} THEN 30 ELSE 31

DaysBeforeMonth(y, m) ==
    LET cum == <<0, 31, 59, 90, 120, 151, 181, 212, 243, 273, 304, 334>>
    IN  cum[m] + (IF m > 2 /\ IsLeap(y) THEN 1 ELSE 0)

DaysBeforeYear(y) ==
    LET p == y - 1 IN 365 * p + (p \div 4) - (p \div 100) + (p \div 400)

\* date.toordinal(): 0001-01-01 is day 1.
ToOrdinal(y, m, d) == DaysBeforeYear(y) + DaysBeforeMonth(y, m) + d

\* date.fromordinal(), as datetime._ord2ymd computes it.
FromOrdinal(ord) ==
    LET n0   == ord - 1
        n400 == n0 \div 146097
        r400 == n0 % 146097
        n100 == r400 \div 36524
        r100 == r400 % 36524
        n4   == r100 \div 1461
        r4   == r100 % 1461
        n1   == r4 \div 365
        r1   == r4 % 365
        y    == n400 * 400 + n100 * 100 + n4 * 4 + n1 + 1
    IN  IF n1 = 4 \/ n100 = 4
        THEN [year |-> y - 1, month |-> 12, day |-> 31]
        ELSE LET m == CHOOSE k \in 1..12 :
                        /\ DaysBeforeMonth(y, k) <= r1
                        /\ r1 < DaysBeforeMonth(y, k) + DaysInMonth(y, k)
             IN  [year |-> y, month |-> m, day |-> r1 - DaysBeforeMonth(y, m) + 1]

\* datetime(year, month, day, hour, minute, second)
DateTime(y, m, d, hh, mi, ss) ==
    [year |-> y, month |-> m, day |-> d, hour |-> hh, minute |-> mi, second |-> ss]

\* The constructor raises ValueError for a day the month does not have.
ValidDate(y, m, d) == m \in 1..12 /\ d >= 1 /\ d <= DaysInMonth(y, m)
ValidTime(hh, mi) == hh \in 0..23 /\ mi \in 0..59

Ordinal(dt) == ToOrdinal(dt.year, dt.month, dt.day)
SecondOfDay(dt) == dt.hour * 3600 + dt.minute * 60 + dt.second

\* datetime.weekday(): Monday is 0.
WeekdayOf(dt) == (Ordinal(dt) + 6) % 7

\* datetime comparison: by date, then by time of day.
Lt(a, b) == \/ Ordinal(a) < Ordinal(b)
            \/ Ordinal(a) = Ordinal(b) /\ SecondOfDay(a) < SecondOfDay(b)
Le(a, b) == a = b \/ Lt(a, b)
Gt(a, b) == Lt(b, a)
Ge(a, b) == Le(b, a)

SameDate(a, b) == a.year = b.year /\ a.month = b.month /\ a.day = b.day

\* dt + timedelta(days=n)
AddDays(dt, n) ==
    LET d == FromOrdinal(Ordinal(dt) + n)
    IN  DateTime(d.year, d.month, d.day, dt.hour, dt.minute, dt.second)

\* dt + timedelta(minutes=n)
AddMinutes(dt, n) ==
    LET total == SecondOfDay(dt) + 60 * n
        d     == FromOrdinal(Ordinal(dt) + (total \div 86400))
        s     == total % 86400
    IN  DateTime(d.year, d.month, d.day, s \div 3600, (s % 3600) \div 60, s % 60)

\* dt.replace(hour=hh, minute=mi, second=0, microsecond=0)
ReplaceTime(dt, hh, mi) ==
    IF ValidTime(hh, mi)
    THEN DateTime(dt.year, dt.month, dt.day, hh, mi, 0)
    ELSE ValueError


(***************************************************************************)
(* RecurrencePattern.  A list is a sequence; an entry of times_of_day is   *)
(* the string "HH:MM" given as the integers of its split(':') parts, so    *)
(* <<9, 0>> is "09:00" and <<9>> is "9".  An enum member is its qualified  *)
(* name; its .value is the string the enum class gives it.                 *)
(***************************************************************************)
DAILY == "RecurrenceType.DAILY"
WEEKLY == "RecurrenceType.WEEKLY"
MONTHLY == "RecurrenceType.MONTHLY"
YEARLY == "RecurrenceType.YEARLY"
CUSTOM == "RecurrenceType.CUSTOM"

DAY_OF_MONTH == "MonthlyType.DAY_OF_MONTH"
WEEKDAY_OF_MONTH == "MonthlyType.WEEKDAY_OF_MONTH"
LAST_DAY == "MonthlyType.LAST_DAY"
LAST_WEEKDAY == "MonthlyType.LAST_WEEKDAY"

\* member.value
EnumValue(member) ==
    CASE member = DAILY -> "daily"
      [] member = WEEKLY -> "weekly"
      [] member = MONTHLY -> "monthly"
      [] member = YEARLY -> "yearly"
      [] member = CUSTOM -> "custom"
      [] member = DAY_OF_MONTH -> "day_of_month"
      [] member = WEEKDAY_OF_MONTH -> "weekday_of_month"
      [] member = LAST_DAY -> "last_day"
      [] member = LAST_WEEKDAY -> "last_weekday"

RecurrenceTypes == {DAILY, WEEKLY, MONTHLY, YEARLY, CUSTOM}
MonthlyTypes == {DAY_OF_MONTH, WEEKDAY_OF_MONTH, LAST_DAY, LAST_WEEKDAY}

\* RecurrenceType(value) and MonthlyType(value): the member with that value.  The
\* call raises ValueError for a value no member has (IsValueOf is FALSE).
IsValueOf(members, value) == \E m \in members : EnumValue(m) = value
RecurrenceType(value) == CHOOSE m \in RecurrenceTypes : EnumValue(m) = value
MonthlyType(value) == CHOOSE m \in MonthlyTypes : EnumValue(m) = value

\* RecurrencePattern.__init__, the assignments (validation is _validate_pattern).
RecurrencePattern(rt, interval, weekdays, times_of_day, day_of_month, month_of_year, monthly_type, weekday, week_of_month, p_end_date, max_occurrences) ==
    [recurrence_type |-> rt,
     interval        |-> interval,
     weekdays        |-> weekdays,
     times_of_day    |-> times_of_day,
     day_of_month    |-> day_of_month,
     month_of_year   |-> month_of_year,
     monthly_type    |-> monthly_type,
     weekday         |-> weekday,
     week_of_month   |-> week_of_month,
     end_date        |-> p_end_date,
     max_occurrences |-> max_occurrences]

SeqRange(s) == {s[i] : i \in 1..Len(s)}
SetMin(S) == CHOOSE x \in S : \A y \in S : x <= y

\* Faulty variant: the interval test is "< 0", and the weekdays loop is missing.
ValidateLoosely(p) ==
    /\ ~(p.interval < 0)
    /\ ~(Truthy(p.day_of_month) /\ ~(1 <= p.day_of_month /\ p.day_of_month <= 31))
    /\ ~(Truthy(p.month_of_year) /\ ~(1 <= p.month_of_year /\ p.month_of_year <= 12))
    /\ ~(p.weekday # NoneInt /\ ~(0 <= p.weekday /\ p.weekday <= 6))
    /\ ~(Truthy(p.week_of_month)
           /\ ~(-5 <= p.week_of_month /\ p.week_of_month <= 5 /\ p.week_of_month # 0))

\* TRUE when _validate_pattern returns without raising.
_validate_pattern(p) ==
    /\ ~(p.interval < 1)
    /\ \A day \in SeqRange(p.weekdays) : 0 <= day /\ day <= 6
    /\ ~(Truthy(p.day_of_month) /\ ~(1 <= p.day_of_month /\ p.day_of_month <= 31))
    /\ ~(Truthy(p.month_of_year) /\ ~(1 <= p.month_of_year /\ p.month_of_year <= 12))
    /\ ~(p.weekday # NoneInt /\ ~(0 <= p.weekday /\ p.weekday <= 6))
    /\ ~(Truthy(p.week_of_month)
           /\ ~(-5 <= p.week_of_month /\ p.week_of_month <= 5 /\ p.week_of_month # 0))

\* The named builders.
daily(interval, times_of_day) ==
    RecurrencePattern(DAILY, interval, <<>>, times_of_day, NoneInt, NoneInt,
                      DAY_OF_MONTH, NoneInt, NoneInt, None, NoneInt)
weekly(weekdays, interval, times_of_day) ==
    RecurrencePattern(WEEKLY, interval, weekdays, times_of_day, NoneInt, NoneInt,
                      DAY_OF_MONTH, NoneInt, NoneInt, None, NoneInt)
monthly_by_date(day_of_month, interval, times_of_day) ==
    RecurrencePattern(MONTHLY, interval, <<>>, times_of_day, day_of_month, NoneInt,
                      DAY_OF_MONTH, NoneInt, NoneInt, None, NoneInt)
monthly_by_weekday(weekday, week_of_month, interval, times_of_day) ==
    RecurrencePattern(MONTHLY, interval, <<>>, times_of_day, NoneInt, NoneInt,
                      WEEKDAY_OF_MONTH, weekday, week_of_month, None, NoneInt)
yearly(month, day, interval, times_of_day) ==
    RecurrencePattern(YEARLY, interval, <<>>, times_of_day, day, month,
                      DAY_OF_MONTH, NoneInt, NoneInt, None, NoneInt)

\* cls(...): the object whose fields are kwargs when validation passes, else the
\* ValueError _validate_pattern raises out of __init__.
__init__(kwargs) == IF _validate_pattern(kwargs) THEN kwargs ELSE ValueError

(***************************************************************************)
(* to_dict / from_dict.  A str is the record of its characters, so that no *)
(* str equals None; datetime.isoformat() writes "YYYY-MM-DDTHH:MM:SS" (the *)
(* instants here have no microseconds) and fromisoformat() reads it back.  *)
(***************************************************************************)
Str(chars) == [str |-> chars]

DigitChars == <<"0", "1", "2", "3", "4", "5", "6", "7", "8", "9">>
Pow10(k) == IF k = 0 THEN 1 ELSE IF k = 1 THEN 10 ELSE IF k = 2 THEN 100 ELSE 1000

\* "%0*d" % (width, n)
Pad(n, width) == [i \in 1..width |-> DigitChars[((n \div Pow10(width - i)) % 10) + 1]]

isoformat(dt) ==
    Str(Pad(dt.year, 4) \o <<"-">> \o Pad(dt.month, 2) \o <<"-">> \o Pad(dt.day, 2)
          \o <<"T">> \o Pad(dt.hour, 2) \o <<":">> \o Pad(dt.minute, 2)
          \o <<":">> \o Pad(dt.second, 2))

DigitOf(c) == (CHOOSE k \in 1..10 : DigitChars[k] = c) - 1

RECURSIVE ParseInt(_)
ParseInt(chars) ==
    IF chars = <<>> THEN 0
    ELSE 10 * ParseInt(SubSeq(chars, 1, Len(chars) - 1)) + DigitOf(chars[Len(chars)])

\* Faulty variant: only the date part of the string is read.
FromIsoDateOnly(s) ==
    LET c == s.str
    IN  DateTime(ParseInt(SubSeq(c, 1, 4)), ParseInt(SubSeq(c, 6, 7)),
                 ParseInt(SubSeq(c, 9, 10)), 0, 0, 0)

fromisoformat(s) ==
    LET c == s.str
    IN  DateTime(ParseInt(SubSeq(c, 1, 4)), ParseInt(SubSeq(c, 6, 7)),
                 ParseInt(SubSeq(c, 9, 10)), ParseInt(SubSeq(c, 12, 13)),
                 ParseInt(SubSeq(c, 15, 16)), ParseInt(SubSeq(c, 18, 19)))

to_dict(self) ==
    [recurrence_type |-> EnumValue(self.recurrence_type),
     interval        |-> self.interval,
     weekdays        |-> self.weekdays,
     times_of_day    |-> self.times_of_day,
     day_of_month    |-> self.day_of_month,
     month_of_year   |-> self.month_of_year,
     monthly_type    |-> EnumValue(self.monthly_type),
     weekday         |-> self.weekday,
     week_of_month   |-> self.week_of_month,
     end_date        |-> IF self.end_date # None THEN isoformat(self.end_date) ELSE None,
     max_occurrences |-> self.max_occurrences]

\* The keyword arguments from_dict hands to cls(...); building them raises
\* ValueError when a discriminator names no enum member.
FromDictKwargs(d) ==
    IF ~IsValueOf(RecurrenceTypes, d.recurrence_type)
         \/ ~IsValueOf(MonthlyTypes, d.monthly_type)
    THEN ValueError
    ELSE RecurrencePattern(RecurrenceType(d.recurrence_type), d.interval, d.weekdays,
                           d.times_of_day, d.day_of_month, d.month_of_year,
                           MonthlyType(d.monthly_type), d.weekday, d.week_of_month,
                           IF d.end_date # None THEN fromisoformat(d.end_date) ELSE None,
                           d.max_occurrences)

from_dict(d) ==
    IF FromDictKwargs(d) = ValueError THEN ValueError ELSE __init__(FromDictKwargs(d))

(***************************************************************************)
(* RecurrenceCalculator.  A call returns a datetime or None, raises        *)
(* (ValueError), or never returns (Hang).                                  *)
(***************************************************************************)
Hang == [hang |-> TRUE]

IsDateTime(x) == x # None /\ x # ValueError /\ x # Hang

\* int(time_parts[0]) and int(time_parts[1]) if len(time_parts) > 1 else 0
HourOf(time_str) == time_str[1]
MinuteOf(time_str) == IF Len(time_str) > 1 THEN time_str[2] ELSE 0

\* The for loop over times_of_day shared by _next_daily and _apply_times_of_day:
\* the index of the first entry that makes the loop leave (its replace() raises,
\* or the instant it gives on base's date is later than after_date), 0 if none.
FirstLeave(times_of_day, base, after) ==
    LET leaves(i) == LET t == ReplaceTime(base, HourOf(times_of_day[i]),
                                          MinuteOf(times_of_day[i]))
                     IN  t = ValueError \/ Gt(t, after)
        hits == {i \in 1..Len(times_of_day) : leaves(i)}
    IN  IF hits = {} THEN 0 ELSE SetMin(hits)

\* Faulty variant: on a later date the occurrence keeps the clock time it came with.
ApplyTimesKeepingClock(p, next_date, after) ==
    IF p.times_of_day = <<>> \/ ~SameDate(next_date, after) THEN next_date
    ELSE LET i == FirstLeave(p.times_of_day, next_date, after)
             k == IF i = 0 THEN 1 ELSE i
         IN  ReplaceTime(next_date, HourOf(p.times_of_day[k]),
                         MinuteOf(p.times_of_day[k]))

_apply_times_of_day(p, next_date, after) ==
    IF p.times_of_day = <<>> THEN next_date
    ELSE LET i == IF SameDate(next_date, after)
                  THEN FirstLeave(p.times_of_day, next_date, after) ELSE 0
             k == IF i = 0 THEN 1 ELSE i
         IN  ReplaceTime(next_date, HourOf(p.times_of_day[k]),
                         MinuteOf(p.times_of_day[k]))

\* Faulty variant: the next day, whatever the interval.
NextDailyIgnoringInterval(p, after) ==
    IF p.times_of_day # <<>>
    THEN LET i == FirstLeave(p.times_of_day, after, after)
         IN  ReplaceTime(IF i # 0 THEN after ELSE AddDays(after, 1),
                         HourOf(p.times_of_day[IF i # 0 THEN i ELSE 1]),
                         MinuteOf(p.times_of_day[IF i # 0 THEN i ELSE 1]))
    ELSE AddDays(after, 1)

_next_daily(p, after) ==
    LET next_date == AddDays(after, p.interval)
    IN  IF p.times_of_day # <<>>
        THEN LET i == FirstLeave(p.times_of_day, after, after)
             IN  IF i # 0
                 THEN ReplaceTime(after, HourOf(p.times_of_day[i]),
                                  MinuteOf(p.times_of_day[i]))
                 ELSE \* datetime.combine(after.date() + interval days, first time)
                      ReplaceTime(AddDays(after, p.interval),
                                  HourOf(p.times_of_day[1]),
                                  MinuteOf(p.times_of_day[1]))
        ELSE next_date

\* _next_weekly past its guard: weekdays is not empty.
WeeklyFromWeekdays(p, after) ==
    LET current_weekday == WeekdayOf(after)
        later == {w \in SeqRange(p.weekdays) : w > current_weekday}
    IN  IF later # {}
        THEN \* the first of sorted(weekdays) above current_weekday
             _apply_times_of_day(p, AddDays(after, SetMin(later) - current_weekday),
                                 after)
        ELSE LET days_until_next_week == 7 * p.interval - current_weekday - 1
                 days_ahead == days_until_next_week + SetMin(SeqRange(p.weekdays))
             IN  _apply_times_of_day(p, AddDays(after, days_ahead), after)

\* Faulty variant: the guard "if not pattern.weekdays: return None" is missing, so the
\* empty list reaches min(pattern.weekdays), which raises ValueError.
NextWeeklyUnguarded(p, after) ==
    IF p.weekdays = <<>> THEN ValueError ELSE WeeklyFromWeekdays(p, after)

_next_weekly(p, after) ==
    IF p.weekdays = <<>> THEN None ELSE WeeklyFromWeekdays(p, after)

\* The month reached from (year, month) by the loop "for i in range(n): month += 1,
\* wrapping 12 -> 1 into the next year".
AdvanceMonths(year, month, n) ==
    LET total == (month - 1) + n
    IN  [year |-> year + (total \div 12), month |-> (total % 12) + 1]

\* Faulty variant: a month without target_day is not skipped; the day is clamped to the
\* month's last day.
MonthlyByDateClamped(p, after, year, month) ==
    LET d == IF ValidDate(year, month, p.day_of_month)
             THEN p.day_of_month ELSE DaysInMonth(year, month)
        r == _apply_times_of_day(p, DateTime(year, month, d, 0, 0, 0), after)
    IN  IF r = ValueError THEN Hang ELSE r

\* The "while True" walk of _next_monthly_by_date from (year, month): a month that
\* has target_day ends it unless applying the times raises, which the loop's own
\* "except ValueError" swallows like a missing day, so the walk then never ends.
RECURSIVE MonthlyByDateWalk(_, _, _, _)
MonthlyByDateWalk(p, after, year, month) ==
    IF ValidDate(year, month, p.day_of_month)
    THEN LET r == _apply_times_of_day(
                      p, DateTime(year, month, p.day_of_month, 0, 0, 0), after)
         IN  IF r = ValueError THEN Hang ELSE r
    ELSE IF month + p.interval > 12
         THEN MonthlyByDateWalk(p, after, year + 1, 1)
         ELSE MonthlyByDateWalk(p, after, year, month + p.interval)

_next_monthly_by_date(p, after) ==
    LET target_day == p.day_of_month
        first == IF ValidDate(after.year, after.month, target_day)
                 THEN LET next_date == [after EXCEPT !.day = target_day]
                      IN  IF Gt(next_date, after)
                          THEN _apply_times_of_day(p, next_date, after)
                          ELSE None
                 ELSE None
        start == AdvanceMonths(after.year, after.month, p.interval)
    IN  IF first # None /\ first # ValueError
        THEN first
        ELSE MonthlyByDateWalk(p, after, start.year, start.month)

\* A date of the calendar, as date.fromordinal gives it.
DateOfOrdinal(ord) == FromOrdinal(ord)

\* Faulty variant: the date is returned without the test that it is still in the month.
FindWeekdayUnchecked(year, month, weekday, week_of_month) ==
    LET first_day == ToOrdinal(year, month, 1)
        first_weekday == (first_day + 6) % 7
        d0 == weekday - first_weekday
        days_ahead == IF d0 < 0 THEN d0 + 7 ELSE d0
        last_day == first_day + DaysInMonth(year, month) - 1
        days_back == (((last_day + 6) % 7) - weekday) % 7
    IN  IF week_of_month > 0
        THEN DateOfOrdinal(first_day + days_ahead + 7 * (week_of_month - 1))
        ELSE DateOfOrdinal(last_day - days_back + 7 * (week_of_month + 1))

_find_weekday_in_month(year, month, weekday, week_of_month) ==
    LET first_day == ToOrdinal(year, month, 1)
        first_weekday == (first_day + 6) % 7
    IN  IF week_of_month > 0
        THEN LET d0 == weekday - first_weekday
                 days_ahead == IF d0 < 0 THEN d0 + 7 ELSE d0
                 first_occurrence == first_day + days_ahead
                 target_date == DateOfOrdinal(first_occurrence + 7 * (week_of_month - 1))
             IN  IF target_date.month = month THEN target_date ELSE None
        ELSE LET last_day == IF month = 12
                             THEN ToOrdinal(year + 1, 1, 1) - 1
                             ELSE ToOrdinal(year, month + 1, 1) - 1
                 days_back == (((last_day + 6) % 7) - weekday) % 7
                 last_occurrence == last_day - days_back
                 target_ord == last_occurrence + 7 * (week_of_month + 1)
                 target_date == DateOfOrdinal(target_ord)
             IN  IF target_date.month = month /\ target_ord >= first_day
                 THEN target_date ELSE None

\* datetime.combine(target_date, after.time())
Combine(d, after) ==
    DateTime(d.year, d.month, d.day, after.hour, after.minute, after.second)

DateGt(d, after) == ToOrdinal(d.year, d.month, d.day) > Ordinal(after)

_next_monthly_by_weekday(p, after) ==
    LET target_date == _find_weekday_in_month(after.year, after.month,
                                              p.weekday, p.week_of_month)
        start == AdvanceMonths(after.year, after.month, p.interval)
        next_target == _find_weekday_in_month(start.year, start.month,
                                              p.weekday, p.week_of_month)
    IN  IF target_date # None /\ DateGt(target_date, after)
        THEN _apply_times_of_day(p, Combine(target_date, after), after)
        ELSE IF next_target # None
             THEN _apply_times_of_day(p, Combine(next_target, after), after)
             ELSE None

_next_monthly_last_day(p, after) ==
    LET last_day == DaysInMonth(after.year, after.month)
        next_date == [after EXCEPT !.day = last_day]
        first == IF Gt(next_date, after)
                 THEN _apply_times_of_day(p, next_date, after)
                 ELSE None
        start == AdvanceMonths(after.year, after.month, p.interval)
    IN  IF first # None /\ first # ValueError
        THEN first
        ELSE _apply_times_of_day(
                 p, DateTime(start.year, start.month,
                             DaysInMonth(start.year, start.month), 0, 0, 0), after)

_next_monthly(p, after) ==
    IF p.monthly_type = DAY_OF_MONTH /\ Truthy(p.day_of_month)
    THEN _next_monthly_by_date(p, after)
    ELSE IF p.monthly_type = WEEKDAY_OF_MONTH /\ p.weekday # NoneInt
    THEN _next_monthly_by_weekday(p, after)
    ELSE IF p.monthly_type = LAST_DAY
    THEN _next_monthly_last_day(p, after)
    ELSE None

_next_yearly(p, after) ==
    IF ~Truthy(p.month_of_year) \/ ~Truthy(p.day_of_month) THEN None
    ELSE LET target_month == p.month_of_year
             target_day == p.day_of_month
             first == IF ValidDate(after.year, target_month, target_day)
                      THEN LET next_date == DateTime(after.year, target_month,
                                                     target_day, 0, 0, 0)
                           IN  IF Gt(next_date, after)
                               THEN _apply_times_of_day(p, next_date, after)
                               ELSE None
                      ELSE None
             next_year == after.year + p.interval
             second == IF ValidDate(next_year, target_month, target_day)
                       THEN _apply_times_of_day(
                                p, DateTime(next_year, target_month, target_day, 0, 0, 0),
                                after)
                       ELSE ValueError
         IN  IF first # None /\ first # ValueError THEN first
             ELSE IF second # ValueError THEN second
             ELSE IF target_month = 2 /\ target_day = 29
             THEN _apply_times_of_day(p, DateTime(next_year, target_month, 28, 0, 0, 0),
                                      after)
             ELSE None

get_next_occurrence(p, after) ==
    IF p.end_date # None /\ Ge(after, p.end_date) THEN None
    ELSE IF p.recurrence_type = DAILY THEN _next_daily(p, after)
    ELSE IF p.recurrence_type = WEEKLY THEN _next_weekly(p, after)
    ELSE IF p.recurrence_type = MONTHLY THEN _next_monthly(p, after)
    ELSE IF p.recurrence_type = YEARLY THEN _next_yearly(p, after)
    ELSE None

(***************************************************************************)
(* The inputs: the patterns the builders construct and validation accepts, *)
(* with the optional end_date / max_occurrences set on them, and the       *)
(* instants the calculator is asked about.                                 *)
(***************************************************************************)
Intervals == 1..MaxInterval

\* "09:00", "21:00" and a string validation accepts but no clock shows.
T0900 == <<9, 0>>
T2100 == <<21, 0>>
T2500 == <<25, 0>>
TimesLists == {<<>>, <<T0900>>, <<T0900, T2100>>, <<T2100, T0900>>, <<T2500>>}

WeekdayLists == {<<>>, <<0>>, <<6>>, <<0, 2, 4>>, <<4, 0>>, <<5, 6>>}
MonthDays == {15, 30, 31}
WeekdayOrdinals == {<<0, 1>>, <<4, -1>>, <<0, 5>>}
YearDays == {<<3, 15>>, <<2, 29>>, <<1, 27>>, <<4, 31>>}

BuiltWith(ts) ==
    {daily(i, ts) : i \in Intervals}
      \cup {weekly(w, i, ts) : w \in WeekdayLists, i \in Intervals}
      \cup {monthly_by_date(d, i, ts) : d \in MonthDays, i \in Intervals}
      \cup {monthly_by_weekday(wo[1], wo[2], i, ts)
              : wo \in WeekdayOrdinals, i \in Intervals}
      \cup {[monthly_by_date(NoneInt, i, ts) EXCEPT !.monthly_type = LAST_DAY]
              : i \in Intervals}
      \cup {[monthly_by_weekday(4, -1, i, ts) EXCEPT !.monthly_type = LAST_WEEKDAY]
              : i \in Intervals}
      \cup {yearly(md[1], md[2], i, ts) : md \in YearDays, i \in Intervals}

BuiltPatterns == UNION {BuiltWith(ts) : ts \in TimesLists}

PatternEndDates == {None, DateTime(2025, 1, 28, 9, 0, 0)}
MaxOccurrences == {NoneInt, 0, 1, 2}

Patterns ==
    {q \in {[p EXCEPT !.end_date = e, !.max_occurrences = n]
              : p \in BuiltPatterns, e \in PatternEndDates, n \in MaxOccurrences}
       : _validate_pattern(q)}

\* Saturday 2025-01-25 and the days after it: two Sundays and a month's end.
WindowStart == ToOrdinal(2025, 1, 25)
Dates ==
    {FromOrdinal(WindowStart + k) : k \in 0..(WindowDays - 1)}
      \cup {[year |-> 2023, month |-> 2, day |-> 27],
            [year |-> 2024, month |-> 2, day |-> 29],
            [year |-> 2025, month |-> 8, day |-> 31],
            [year |-> 2025, month |-> 12, day |-> 31]}
ClockTimes == {<<0, 0, 0>>, <<0, 1, 0>>, <<8, 0, 0>>, <<9, 0, 0>>, <<9, 0, 30>>,
               <<22, 0, 0>>}
Instants == {DateTime(d.year, d.month, d.day, t[1], t[2], t[3])
               : d \in Dates, t \in ClockTimes}

RangeStarts == {DateTime(2025, 1, 25, 8, 0, 0), DateTime(2025, 1, 26, 8, 0, 0),
                DateTime(2025, 1, 26, 22, 0, 0), DateTime(2025, 1, 31, 0, 1, 0)}
RangeDays == {1, 3}

\* What a caller passes to the constructor and the builders when nothing has
\* checked it yet.
RawIntervals == {-1, 0, 1}
RawWeekdayLists == {<<>>, <<0, 6>>, <<7>>, <<0, -1>>}
RawDays == {NoneInt, 0, 1, 31, 32}
RawMonths == {NoneInt, 0, 12, 13}
RawWeekdays == {NoneInt, -1, 6, 7}
RawWeeks == {NoneInt, -6, -5, 0, 5, 6}

DirectKwargs ==
    {RecurrencePattern(MONTHLY, i, w, <<>>, d, m, WEEKDAY_OF_MONTH, wd, wk, None, NoneInt)
       : i \in RawIntervals, w \in RawWeekdayLists, d \in RawDays, m \in RawMonths,
         wd \in RawWeekdays, wk \in RawWeeks}

BuilderKwargs ==
    {daily(i, <<>>) : i \in RawIntervals}
      \cup {weekly(w, i, <<>>) : w \in RawWeekdayLists, i \in RawIntervals}
      \cup {monthly_by_date(d, i, <<>>) : d \in RawDays \ {NoneInt}, i \in RawIntervals}
      \cup {monthly_by_weekday(wd, wk, i, <<>>)
              : wd \in RawWeekdays \ {NoneInt}, wk \in RawWeeks \ {NoneInt},
                i \in RawIntervals}
      \cup {yearly(m, d, i, <<>>)
              : m \in RawMonths \ {NoneInt}, d \in RawDays \ {NoneInt}, i \in RawIntervals}

\* The dictionaries a store can hand to from_dict: unchecked fields, and kinds no
\* enum member is named after.
RawDicts ==
    {to_dict(k) : k \in BuilderKwargs}
      \cup {[to_dict(daily(1, <<>>)) EXCEPT !.recurrence_type = "hourly"],
            [to_dict(monthly_by_date(15, 1, <<>>)) EXCEPT !.monthly_type = "nth_day"]}

\* What the caller remembers of the first answers to one fixed question of each kind.
NoMemo == [unset |-> TRUE]
MemoInstant == DateTime(2025, 1, 26, 8, 0, 0)
IsMemoRange ==
    /\ start_date = MemoInstant
    /\ end_date = AddDays(MemoInstant, 3)
    /\ max_count = 2

(***************************************************************************)
(* The state machine.  A caller constructs patterns (directly, through a   *)
(* builder, or from a stored dictionary); holding one, it asks for the     *)
(* next occurrence after an instant, enumerates a range (the while loop of *)
(* get_occurrences_in_range runs one iteration per step), or serializes    *)
(* the pattern and reads it back.                                          *)
(***************************************************************************)
\* A pass of generate_due_recurring_todos that has not started: its locals.
Workers == 1..2
IdleWorker ==
    [pc |-> "idle", passes |-> 0, current_time |-> None, active |-> <<>>, idx |-> 0,
     last_generated |-> <<>>, dirty |-> {}, next_occurrence |-> None,
     existing |-> FALSE, generated |-> <<>>]

\* No store: the calculator is used on its own.
GenIdle ==
    /\ templates = <<>>
    /\ todos = <<>>
    /\ now = None
    /\ nworkers = 0
    /\ worker = [w \in Workers |-> IdleWorker]
    /\ tcall = None

CalcStart ==
    /\ pattern = None
    /\ pc = "new"
    /\ after_date = None
    /\ result = None
    /\ start_date = None
    /\ end_date = None
    /\ max_count = 0
    /\ occurrences = <<>>
    /\ current_date = None
    /\ count = 0
    /\ args = None
    /\ data = None
    /\ built = None
    /\ memo = [next |-> NoMemo, range |-> NoMemo]

Init == CalcStart /\ GenIdle

\* A builder call that validation accepts, then the optional end_date and
\* max_occurrences: the pattern the caller goes on to use.
Build ==
    /\ pc = "new"
    /\ pattern' \in Patterns
    /\ pc' = "idle"
    /\ UNCHANGED genvars
    /\ UNCHANGED <<after_date, result, start_date, end_date, max_count, occurrences,
                   current_date, count, args, data, built, memo>>

\* RecurrencePattern(...) or a named builder with unchecked arguments.
Construct ==
    /\ pc = "new"
    /\ \E k \in DirectKwargs \cup BuilderKwargs :
         /\ args' = k
         /\ built' = __init__(k)
    /\ pc' = "built"
    /\ UNCHANGED genvars
    /\ UNCHANGED <<pattern, after_date, result, start_date, end_date, max_count,
                   occurrences, current_date, count, data, memo>>

\* A dictionary arrives from the store.
ReceiveDict ==
    /\ pc = "new"
    /\ data' \in RawDicts
    /\ pc' = "dict"
    /\ UNCHANGED genvars
    /\ UNCHANGED <<pattern, after_date, result, start_date, end_date, max_count,
                   occurrences, current_date, count, args, built, memo>>

\* pattern.to_dict()
ToDict ==
    /\ pc = "idle"
    /\ data' = to_dict(pattern)
    /\ pc' = "dict"
    /\ UNCHANGED genvars
    /\ UNCHANGED <<pattern, after_date, result, start_date, end_date, max_count,
                   occurrences, current_date, count, args, built, memo>>

\* RecurrencePattern.from_dict(data)
FromDict ==
    /\ pc = "dict"
    /\ args' = FromDictKwargs(data)
    /\ built' = from_dict(data)
    /\ pc' = "built"
    /\ UNCHANGED genvars
    /\ UNCHANGED <<pattern, after_date, result, start_date, end_date, max_count,
                   occurrences, current_date, count, data, memo>>

\* The caller drops what the construction gave.
BuiltDone ==
    /\ pc = "built"
    /\ pc' = IF pattern = None THEN "new" ELSE "idle"
    /\ args' = None
    /\ data' = None
    /\ built' = None
    /\ UNCHANGED genvars
    /\ UNCHANGED <<pattern, after_date, result, start_date, end_date, max_count,
                   occurrences, current_date, count, memo>>

\* Faulty variant: the call sorts pattern.weekdays in place (list.sort() where the
\* code takes sorted(), a copy).
GetNextOccurrenceSortingInPlace ==
    /\ pc = "idle"
    /\ \E T \in Instants :
         /\ after_date' = T
         /\ result' = get_next_occurrence(pattern, T)
    /\ pattern' = [pattern EXCEPT !.weekdays = SortSeq(@, LAMBDA x, y : x < y)]
    /\ pc' = "next_done"
    /\ UNCHANGED genvars
    /\ UNCHANGED <<start_date, end_date, max_count, occurrences,
                   current_date, count, args, data, built, memo>>

\* RecurrenceCalculator.get_next_occurrence(pattern, T): the whole call.
GetNextOccurrence ==
    /\ pc = "idle"
    /\ \E T \in Instants :
         /\ after_date' = T
         /\ result' = get_next_occurrence(pattern, T)
    /\ pc' = "next_done"
    /\ UNCHANGED genvars
    /\ UNCHANGED <<pattern, start_date, end_date, max_count, occurrences,
                   current_date, count, args, data, built, memo>>

\* The caller is done with the answer (an answer that never came stays pending).
NextDone ==
    /\ pc = "next_done"
    /\ result # Hang
    /\ pc' = "idle"
    /\ after_date' = None
    /\ result' = None
    /\ memo' = IF after_date = MemoInstant /\ memo.next = NoMemo
               THEN [memo EXCEPT !.next = result] ELSE memo
    /\ UNCHANGED genvars
    /\ UNCHANGED <<pattern, start_date, end_date, max_count, occurrences,
                   current_date, count, args, data, built>>

\* get_occurrences_in_range(pattern, start, end, max_count): entry, up to the loop.
RangeCall ==
    /\ pc = "idle"
    /\ \E s \in RangeStarts, k \in RangeDays, mc \in 0..MaxCount :
         /\ start_date' = s
         /\ end_date' = AddDays(s, k)
         /\ max_count' = mc
         /\ current_date' = s
    /\ occurrences' = <<>>
    /\ count' = 0
    /\ pc' = "loop"
    /\ UNCHANGED genvars
    /\ UNCHANGED <<pattern, after_date, result, args, data, built, memo>>

\* The probe after an accepted occurrence.
NextProbe(p, next_occurrence) ==
    IF p.times_of_day # <<>> /\ Len(p.times_of_day) > 1
    THEN AddMinutes(next_occurrence, 1)
    ELSE AddDays(next_occurrence, 1)

\* One test of the while condition and, when it holds, one iteration of the body.
RangeIterate ==
    /\ pc = "loop"
    /\ IF ~(Lt(current_date, end_date) /\ count < max_count)
       THEN /\ pc' = "returned"
            /\ UNCHANGED <<occurrences, current_date, count>>
       ELSE LET next_occurrence == get_next_occurrence(pattern, current_date)
            IN  IF next_occurrence = ValueError
                THEN /\ pc' = "raised"
                     /\ UNCHANGED <<occurrences, current_date, count>>
                ELSE IF next_occurrence = Hang
                THEN /\ pc' = "hung"
                     /\ UNCHANGED <<occurrences, current_date, count>>
                ELSE IF next_occurrence = None \/ Gt(next_occurrence, end_date)
                THEN /\ pc' = "returned"
                     /\ UNCHANGED <<occurrences, current_date, count>>
                ELSE /\ occurrences' = Append(occurrences, next_occurrence)
                     /\ current_date' = NextProbe(pattern, next_occurrence)
                     /\ count' = count + 1
                     /\ pc' = IF Truthy(pattern.max_occurrences)
                                   /\ count + 1 >= pattern.max_occurrences
                              THEN "returned" ELSE "loop"
    /\ UNCHANGED genvars
    /\ UNCHANGED <<pattern, after_date, result, start_date, end_date, max_count,
                   args, data, built, memo>>

\* The call is over (the list was returned, or the exception left it).
RangeDone ==
    /\ pc \in {"returned", "raised"}
    /\ pc' = "idle"
    /\ start_date' = None
    /\ end_date' = None
    /\ max_count' = 0
    /\ occurrences' = <<>>
    /\ current_date' = None
    /\ count' = 0
    /\ memo' = IF IsMemoRange /\ memo.range = NoMemo
               THEN [memo EXCEPT !.range = IF pc = "raised" THEN ValueError
                                           ELSE [list |-> occurrences]]
               ELSE memo
    /\ UNCHANGED genvars
    /\ UNCHANGED <<pattern, after_date, result, args, data, built>>

Next ==
    \/ Build \/ Construct \/ ReceiveDict \/ ToDict \/ FromDict \/ BuiltDone
    \/ GetNextOccurrence \/ NextDone \/ RangeCall \/ RangeIterate \/ RangeDone

Spec == Init /\ [][Next]_vars

(***************************************************************************)
(* RecurringTodoTemplate (server/models.py).  A row keeps its pattern as   *)
(* the JSON of to_dict(); json.dumps / json.loads are taken as the         *)
(* dictionary itself.  updated_at counts the updates of the row.           *)
(***************************************************************************)
Template(p, is_active, last_generated) ==
    [recurrence_pattern_json |-> to_dict(p),
     is_active               |-> is_active,
     last_generated          |-> last_generated,
     updated_at              |-> 0]

\* The recurrence_pattern property.
recurrence_pattern(self) == from_dict(self.recurrence_pattern_json)

\* datetime.min
datetime_min == DateTime(1, 1, 1, 0, 0, 0)

\* self.last_generated or datetime.min
LastOrMin(last_generated) ==
    IF last_generated # None THEN last_generated ELSE datetime_min

TemplateNextOccurrenceAnyState(self, after) ==
    get_next_occurrence(recurrence_pattern(self), after)

\* RecurringTodoTemplate.get_next_occurrence(after_date), after_date given.
TemplateNextOccurrence(self, after) ==
    IF ~self.is_active THEN None
    ELSE CHOOSE next_occurrence \in
             {get_next_occurrence(p, a) :
                 p \in {recurrence_pattern(self)}, a \in {after}} : TRUE

\* The whole of RecurrenceCalculator.get_occurrences_in_range, from the loop state
\* (current_date, count, occurrences so far): the list, or how the call fails.
RECURSIVE RangeFrom(_, _, _, _, _, _)
RangeFrom(p, cur, range_end, limit, n, acc) ==
    IF ~(Lt(cur, range_end) /\ n < limit) THEN [list |-> acc]
    ELSE CHOOSE occurrences_or_failure \in
           {IF next_occurrence = ValueError THEN ValueError
            ELSE IF next_occurrence = Hang THEN Hang
            ELSE IF next_occurrence = None \/ Gt(next_occurrence, range_end)
            THEN [list |-> acc]
            ELSE IF Truthy(p.max_occurrences) /\ n + 1 >= p.max_occurrences
            THEN [list |-> Append(acc, next_occurrence)]
            ELSE RangeFrom(p, NextProbe(p, next_occurrence), range_end, limit, n + 1,
                           Append(acc, next_occurrence)) :
               next_occurrence \in {get_next_occurrence(p, cur)}} : TRUE

get_occurrences_in_range(p, range_start, range_end, limit) ==
    RangeFrom(p, range_start, range_end, limit, 0, <<>>)

\* RecurringTodoTemplate.get_upcoming_occurrences(days_ahead, max_count) when
\* datetime.utcnow() reads utcnow.
get_upcoming_occurrences(self, utcnow, days_ahead, limit) ==
    IF ~self.is_active THEN [list |-> <<>>]
    ELSE CHOOSE upcoming \in
             {get_occurrences_in_range(p, utcnow, range_end, limit) :
                 p \in {recurrence_pattern(self)},
                 range_end \in {AddDays(utcnow, days_ahead)}} : TRUE

\* RecurringTodoTemplate.should_generate_instances(current_time): a Boolean, or how
\* the call fails.
should_generate_instances(self, current_time) ==
    CHOOSE should \in
        {IF next_occurrence = ValueError \/ next_occurrence = Hang
         THEN next_occurrence
         ELSE [bool |-> next_occurrence # None /\ Le(next_occurrence, current_time)] :
            next_occurrence \in
                {TemplateNextOccurrence(self, LastOrMin(self.last_generated))}} : TRUE

\* RecurringTodoTemplate.generate_todo_instance(occurrence_time, db_session): the
\* Todo it adds to the session, or None.
generate_todo_instance(self, id, occurrence_time) ==
    IF ~self.is_active THEN None
    ELSE [recurring_template_id |-> id, deadline |-> occurrence_time]

(***************************************************************************)
(* generate_due_recurring_todos (server/models.py) over a store of         *)
(* templates and todos.  A pass runs in its own session: its queries see   *)
(* the committed todos and the todos the pass itself has added (the        *)
(* session flushes before a query); commit writes the added todos and the  *)
(* last_generated of the templates the pass assigned.  One or two passes   *)
(* may be under way at a time.                                             *)
(***************************************************************************)
\* The threshold of the loop's safety check (1000 in the code), the passes
\* started in all, and the updates of a template.
GeneratedCap == 3
MaxPasses == 2
MaxUpdates == 2

GenPatterns ==
    {daily(1, <<>>), daily(1, <<T0900, T2100>>),
     weekly(<<0>>, 1, <<>>), weekly(<<0>>, 1, <<T0900, T2100>>),
     weekly(<<2>>, 1, <<T0900>>), monthly_by_date(15, 1, <<>>),
     daily(1, <<T2500>>), monthly_by_date(15, 1, <<T2500>>)}

\* Readings of datetime.utcnow(): Sunday 2025-01-26 and Monday 2025-01-27.
NowValues == {DateTime(2025, 1, 26, 8, 0, 0), DateTime(2025, 1, 27, 10, 0, 0)}

\* last_generated of a new row (NULL), or as an earlier run left it.
LastGeneratedValues == {None, DateTime(2025, 1, 25, 8, 0, 0)}

TemplateIds == 1..Len(templates)

GenStart ==
    /\ nworkers \in {1, 2}
    /\ \E p \in GenPatterns, lg \in LastGeneratedValues, more \in BOOLEAN :
         templates = IF more
                     THEN <<Template(p, TRUE, lg),
                            Template(daily(1, <<>>), TRUE, DateTime(2025, 1, 25, 8, 0, 0))>>
                     ELSE <<Template(p, TRUE, lg)>>
    /\ todos = <<>>
    /\ now = None
    /\ worker = [w \in Workers |-> IdleWorker]
    /\ tcall = None

GenInit == CalcStart /\ GenStart

AllIdle == \A w \in Workers : worker[w].pc = "idle"

\* generate_due_recurring_todos, entry: current_time = datetime.utcnow() and the
\* query of the active templates.
StartPass(w) ==
    /\ w <= nworkers
    /\ worker[w].pc = "idle"
    /\ tcall = None
    /\ worker[1].passes + worker[2].passes < MaxPasses
    /\ \E t \in NowValues :
         /\ IF now = None THEN TRUE ELSE Ge(t, now)
         /\ now' = t
         /\ LET active == SelectSeq([i \in TemplateIds |-> i],
                                    LAMBDA i : templates[i].is_active)
            IN  worker' = [worker EXCEPT ![w] =
                    [pc |-> IF active = <<>> THEN "commit" ELSE "check",
                     passes |-> worker[w].passes + 1,
                     current_time |-> t,
                     active |-> active,
                     idx |-> 1,
                     last_generated |-> [i \in TemplateIds |-> templates[i].last_generated],
                     dirty |-> {},
                     next_occurrence |-> None,
                     existing |-> FALSE,
                     generated |-> <<>>]]
    /\ UNCHANGED <<templates, todos, nworkers, tcall>>
    /\ UNCHANGED calcvars

\* The template object the pass holds: the row with the session's last_generated.
SessionTemplate(me, id) ==
    [templates[id] EXCEPT !.last_generated = me.last_generated[id]]

\* The for loop goes on to the next template, or the function to its commit.
NextTemplate(me) ==
    [me EXCEPT !.idx = me.idx + 1,
               !.pc = IF me.idx + 1 > Len(me.active) THEN "commit" ELSE "check"]

\* if template.should_generate_instances(current_time): next_occurrence = ...
CheckTemplate(w) ==
    /\ worker[w].pc = "check"
    /\ LET me == worker[w]
           id == me.active[me.idx]
           self == SessionTemplate(me, id)
       IN  \E should \in {should_generate_instances(self, me.current_time)} :
             worker' = [worker EXCEPT ![w] =
               IF should = ValueError THEN [me EXCEPT !.pc = "raised"]
               ELSE IF should = Hang THEN [me EXCEPT !.pc = "hung"]
               ELSE IF should.bool
               THEN [me EXCEPT !.pc = "while",
                               !.next_occurrence =
                                   TemplateNextOccurrence(self, LastOrMin(self.last_generated))]
               ELSE NextTemplate(me)]
    /\ UNCHANGED <<templates, todos, now, nworkers, tcall>>
    /\ UNCHANGED calcvars

DueAlways(next_occurrence, current_time) == next_occurrence # None

\* while next_occurrence and next_occurrence <= current_time
Due(next_occurrence, current_time) ==
    next_occurrence # None /\ Le(next_occurrence, current_time)

ExistingNever(visible, id, deadline) == FALSE

\* Todo.query.filter_by(recurring_template_id=..., deadline=...).first()
Existing(visible, id, deadline) ==
    \E todo \in visible : todo.recurring_template_id = id /\ todo.deadline = deadline

\* The while test and, inside the loop, the query for an existing todo.
WhileTest(w) ==
    /\ worker[w].pc = "while"
    /\ LET me == worker[w]
           id == me.active[me.idx]
           visible == SeqRange(todos) \cup SeqRange(me.generated)
       IN  worker' = [worker EXCEPT ![w] =
               IF Due(me.next_occurrence, me.current_time)
               THEN [me EXCEPT !.pc = "insert",
                               !.existing = Existing(visible, id, me.next_occurrence)]
               ELSE NextTemplate(me)]
    /\ UNCHANGED <<templates, todos, now, nworkers, tcall>>
    /\ UNCHANGED calcvars

\* The rest of the loop body: the insert when nothing existed, the assignment of
\* last_generated, the next occurrence and the safety check.
InsertAndAdvance(w) ==
    /\ worker[w].pc = "insert"
    /\ LET me == worker[w]
           id == me.active[me.idx]
           self == SessionTemplate(me, id)
           todo == generate_todo_instance(self, id, me.next_occurrence)
           generated_todos == IF ~me.existing /\ todo # None
                              THEN Append(me.generated, todo) ELSE me.generated
           advanced == [me EXCEPT !.generated = generated_todos,
                                  !.last_generated[id] = me.next_occurrence,
                                  !.dirty = @ \cup {id}]
       IN  \E next_occurrence \in {TemplateNextOccurrence(self, me.next_occurrence)} :
             worker' = [worker EXCEPT ![w] =
               IF next_occurrence = ValueError THEN [advanced EXCEPT !.pc = "raised"]
               ELSE IF next_occurrence = Hang THEN [advanced EXCEPT !.pc = "hung"]
               ELSE IF next_occurrence = None \/ Len(generated_todos) > GeneratedCap
               THEN NextTemplate([advanced EXCEPT !.next_occurrence = next_occurrence])
               ELSE [advanced EXCEPT !.pc = "while",
                                     !.next_occurrence = next_occurrence]]
    /\ UNCHANGED <<templates, todos, now, nworkers, tcall>>
    /\ UNCHANGED calcvars

\* The templates with the last_generated the pass assigned written to their rows.
Flushed(me) ==
    [i \in TemplateIds |->
        IF i \in me.dirty
        THEN [templates[i] EXCEPT !.last_generated = me.last_generated[i]]
        ELSE templates[i]]

\* if generated_todos: db_session.commit(); return.  Without a commit the caller's
\* session decides whether the assigned last_generated reach the rows.
Commit(w) ==
    /\ worker[w].pc = "commit"
    /\ LET me == worker[w]
       IN  IF me.generated # <<>>
           THEN /\ todos' = todos \o me.generated
                /\ templates' = Flushed(me)
           ELSE /\ todos' = todos
                /\ \E kept \in BOOLEAN :
                     templates' = IF kept THEN Flushed(me) ELSE templates
    /\ worker' = [worker EXCEPT ![w] = [IdleWorker EXCEPT !.passes = worker[w].passes]]
    /\ UNCHANGED <<now, nworkers, tcall>>
    /\ UNCHANGED calcvars

\* The exception leaves the function: nothing is committed.
PassAbort(w) ==
    /\ worker[w].pc = "raised"
    /\ worker' = [worker EXCEPT ![w] = [IdleWorker EXCEPT !.passes = worker[w].passes]]
    /\ UNCHANGED <<templates, todos, now, nworkers, tcall>>
    /\ UNCHANGED calcvars

\* update_from_data({'is_active': ...}) on a template, committed.
SetActive(id) ==
    /\ AllIdle
    /\ tcall = None
    /\ id \in TemplateIds
    /\ templates[id].updated_at < MaxUpdates
    /\ templates' = [templates EXCEPT ![id].is_active = ~@, ![id].updated_at = @ + 1]
    /\ UNCHANGED <<todos, now, nworkers, worker, tcall>>
    /\ UNCHANGED calcvars

\* A direct call of one of the template's methods; T is the argument, or what
\* datetime.utcnow() reads.
TemplateCall(id) ==
    /\ AllIdle
    /\ tcall = None
    /\ id \in TemplateIds
    /\ \E T \in NowValues :
         /\ IF now = None THEN TRUE ELSE Ge(T, now)
         /\ \/ tcall' = [id |-> id, op |-> "get_next_occurrence", arg |-> T,
                         result |-> TemplateNextOccurrence(templates[id], T),
                         added |-> {}]
            \/ tcall' = [id |-> id, op |-> "get_upcoming_occurrences", arg |-> T,
                         result |-> get_upcoming_occurrences(templates[id], T, 3, 2),
                         added |-> {}]
            \/ tcall' = [id |-> id, op |-> "should_generate_instances", arg |-> T,
                         result |-> should_generate_instances(templates[id], T),
                         added |-> {}]
            \/ LET todo == generate_todo_instance(templates[id], id, T)
               IN  tcall' = [id |-> id, op |-> "generate_todo_instance", arg |-> T,
                             result |-> todo,
                             added |-> IF todo = None THEN {} ELSE {todo}]
    /\ UNCHANGED <<templates, todos, now, nworkers, worker>>
    /\ UNCHANGED calcvars

\* The method has returned or raised (a call that never returns stays pending); a
\* todo it added stays in the caller's session.
TemplateCallDone ==
    /\ tcall # None
    /\ tcall.result # Hang
    /\ tcall' = None
    /\ UNCHANGED <<templates, todos, now, nworkers, worker>>
    /\ UNCHANGED calcvars

GenNext ==
    \/ \E w \in Workers : StartPass(w)
    \/ \E w \in Workers : CheckTemplate(w)
    \/ \E w \in Workers : WhileTest(w)
    \/ \E w \in Workers : InsertAndAdvance(w)
    \/ \E w \in Workers : Commit(w)
    \/ \E w \in Workers : PassAbort(w)
    \/ \E id \in 1..2 : SetActive(id)
    \/ \E id \in 1..2 : TemplateCall(id)
    \/ TemplateCallDone

\* The two steps of a pass that call the calculator.
CalculatorStep(w) == CheckTemplate(w) \/ InsertAndAdvance(w)

\* A pass that has started keeps running: weak fairness of its steps.  For the
\* steps that call the calculator, which are enabled exactly at "check" and at
\* "insert", weak fairness is written out as "infinitely often disabled or
\* infinitely often taken".
GenSpec ==
    /\ GenInit
    /\ [][GenNext]_vars
    /\ \A w \in Workers :
         /\ WF_vars(WhileTest(w) \/ Commit(w) \/ PassAbort(w))
         /\ \/ []<>(worker[w].pc \notin {"check", "insert"})
            \/ []<><<CalculatorStep(w)>>_vars

(***************************************************************************)
(* Properties of the calculator.                                           *)
(***************************************************************************)
IsWeekly(p) == p # None /\ p.recurrence_type = WEEKLY
IsMonthlyByDate(p) ==
    /\ p # None
    /\ p.recurrence_type = MONTHLY /\ p.monthly_type = DAY_OF_MONTH /\ Truthy(p.day_of_month)
IsYearly(p) ==
    /\ p # None
    /\ p.recurrence_type = YEARLY /\ Truthy(p.month_of_year) /\ Truthy(p.day_of_month)

TimesValid(p) ==
    \A i \in 1..Len(p.times_of_day) :
        ValidTime(HourOf(p.times_of_day[i]), MinuteOf(p.times_of_day[i]))

\* The list the enumeration has built so far holds only datetimes.
Occ(i) == occurrences[i]

\* C1: whenever get_next_occurrence(P, T) returns an instant, that instant is
\* strictly greater than T (it never returns T itself or an earlier instant).
C1_NextStrictlyAfter ==
    (pc = "next_done" /\ IsDateTime(result)) => Gt(result, after_date)

\* The date rule of a pattern, for the kinds C2 names.
DateMatches(p, t) ==
    IF IsWeekly(p) THEN WeekdayOf(t) \in SeqRange(p.weekdays)
    ELSE IF IsMonthlyByDate(p) THEN t.day = p.day_of_month
    ELSE IF IsYearly(p) THEN t.month = p.month_of_year /\ t.day = p.day_of_month
    ELSE FALSE

\* How many days past after_date C2 looks for an earlier matching instant.
EarlierDays == 7

\* C2: for interval 1 and non-empty times_of_day (weekly, monthly by date, yearly),
\* the instant get_next_occurrence returns is the earliest match: no instant t with
\* after < t < result has a date matching the pattern's rule and a configured time.
C2_NextIsEarliest ==
    (/\ pc = "next_done"
     /\ IsDateTime(result)
     /\ pattern.interval = 1
     /\ pattern.times_of_day # <<>>
     /\ TimesValid(pattern)
     /\ IsWeekly(pattern) \/ IsMonthlyByDate(pattern) \/ IsYearly(pattern))
    => \A k \in 0..EarlierDays, i \in 1..Len(pattern.times_of_day) :
         LET t == ReplaceTime(AddDays(after_date, k),
                              HourOf(pattern.times_of_day[i]),
                              MinuteOf(pattern.times_of_day[i]))
         IN  ~(DateMatches(pattern, t) /\ Gt(t, after_date) /\ Lt(t, result))

\* C3: the enumeration neither misses nor repeats: its first element is
\* get_next_occurrence(pattern, start) and each later element is
\* get_next_occurrence(pattern, previous element).
C3_RangeFollowsNext ==
    \A i \in 1..Len(occurrences) :
        Occ(i) = get_next_occurrence(pattern, IF i = 1 THEN start_date ELSE Occ(i - 1))

\* C4: the list get_occurrences_in_range builds is strictly increasing in time.
C4_RangeStrictlyIncreasing ==
    \A i \in 1..Len(occurrences) : \A j \in 1..Len(occurrences) :
        i < j => Lt(Occ(i), Occ(j))

\* C5: every instant o of the list lies in [start, end): start <= o and o < end.
C5_RangeInWindow ==
    \A i \in 1..Len(occurrences) :
        Le(start_date, Occ(i)) /\ Lt(Occ(i), end_date)

\* C6: the enumeration returns at most max_count instants, at most
\* pattern.max_occurrences when that field is set, and its loop always stops.
C6_RangeBounded ==
    /\ pc # "hung"
    /\ pc \in {"loop", "returned"} =>
         /\ Len(occurrences) <= max_count
         /\ count <= max_count
         /\ pattern.max_occurrences # NoneInt =>
              Len(occurrences) <= pattern.max_occurrences

\* C7: with pattern.end_date set, get_next_occurrence returns None when
\* after >= end_date, every instant it returns is earlier than end_date, and so is
\* every element of the enumeration.
C7_EndDateRespected ==
    (pattern # None /\ pattern.end_date # None) =>
      /\ (pc = "next_done" /\ Ge(after_date, pattern.end_date)) => result = None
      /\ (pc = "next_done" /\ IsDateTime(result)) => Lt(result, pattern.end_date)
      /\ \A i \in 1..Len(occurrences) : Lt(Occ(i), pattern.end_date)

\* C8: for a Weekly pattern with weekdays, every instant get_next_occurrence
\* returns falls on a configured weekday; when none remains in after's week it is
\* min(weekdays).
C8_WeeklyOnConfiguredWeekday ==
    (pc = "next_done" /\ IsWeekly(pattern) /\ pattern.weekdays # <<>>
       /\ IsDateTime(result))
    => /\ WeekdayOf(result) \in SeqRange(pattern.weekdays)
       /\ (\A w \in SeqRange(pattern.weekdays) : w <= WeekdayOf(after_date))
            => WeekdayOf(result) = SetMin(SeqRange(pattern.weekdays))

\* C9: for a Weekly pattern with no weekdays, get_next_occurrence returns None for
\* every instant (no raise, no hang) and get_occurrences_in_range returns [].
C9_EmptyWeekdaysNone ==
    (IsWeekly(pattern) /\ pattern.weekdays = <<>>)
    => /\ pc = "next_done" => result = None
       /\ pc \notin {"raised", "hung"}
       /\ occurrences = <<>>

C9_Witness ==
    /\ pc = "next_done"
    /\ IsWeekly(pattern) /\ pattern.weekdays = <<>>
    /\ pattern.end_date = None
    /\ after_date = DateTime(2025, 1, 28, 8, 0, 0)
    /\ result = None

\* C10: for a Monthly by-day-of-month pattern, every instant returned has exactly
\* the configured day of month (months without it are skipped, never clamped).
C10_MonthlyDayExact ==
    IsMonthlyByDate(pattern)
    => /\ (pc = "next_done" /\ IsDateTime(result)) => result.day = pattern.day_of_month
       /\ \A i \in 1..Len(occurrences) : Occ(i).day = pattern.day_of_month

\* monthly_by_date(31) from 2025-01-31T00:01 yields 2025-03-31.
C10_Witness ==
    /\ pc = "next_done"
    /\ IsMonthlyByDate(pattern) /\ pattern.day_of_month = 31 /\ pattern.interval = 1
    /\ pattern.times_of_day = <<>>
    /\ after_date = DateTime(2025, 1, 31, 0, 1, 0)
    /\ result = DateTime(2025, 3, 31, 0, 0, 0)

IsMonthlyByWeekday(p) ==
    /\ p # None
    /\ p.recurrence_type = MONTHLY /\ p.monthly_type = WEEKDAY_OF_MONTH
    /\ p.weekday # NoneInt /\ p.week_of_month # NoneInt
IsDaily(p) == p # None /\ p.recurrence_type = DAILY

\* The pattern's own end_date does not cut the question off.
BeforeEnd(p, after) == p.end_date = None \/ Lt(after, p.end_date)

\* The month (year, month) has an n-th weekday wd, counted from its first day for
\* n > 0 and from its last day for n < 0.
OrdinalExists(year, month, wd, n) ==
    \E d \in 1..DaysInMonth(year, month) :
        /\ (ToOrdinal(year, month, d) + 6) % 7 = wd
        /\ IF n > 0 THEN ((d - 1) \div 7) + 1 = n
           ELSE ((DaysInMonth(year, month) - d) \div 7) + 1 = -n

\* How many steps of interval months C11 looks ahead for a month with the ordinal.
HorizonSteps == 12

\* C11: for a Monthly ByWeekdayOfMonth pattern, get_next_occurrence answers None
\* only if none of the months reached by advancing interval months at a time,
\* within the search horizon, contains the requested ordinal weekday.
C11_OrdinalSearchContinues ==
    (/\ pc = "next_done"
     /\ IsMonthlyByWeekday(pattern)
     /\ BeforeEnd(pattern, after_date)
     /\ result = None)
    => \A k \in 1..HorizonSteps :
         LET m == AdvanceMonths(after_date.year, after_date.month, k * pattern.interval)
         IN  ~OrdinalExists(m.year, m.month, pattern.weekday, pattern.week_of_month)

\* C12: a Monthly pattern in mode LastWeekday gets, for every instant, the answer
\* the same pattern gets in mode ByWeekdayOfMonth with week_of_month = -1.
C12_LastWeekdayIsAlias ==
    (/\ pc = "next_done"
     /\ pattern # None
     /\ pattern.recurrence_type = MONTHLY /\ pattern.monthly_type = LAST_WEEKDAY)
    => result = get_next_occurrence(
                    [pattern EXCEPT !.monthly_type = WEEKDAY_OF_MONTH,
                                    !.week_of_month = -1], after_date)

\* The first Feb 28 or Feb 29 whose midnight follows T, as an ordinal.
FirstFebAfter(T) ==
    LET cands == {ToOrdinal(y, 2, d) : y \in {T.year, T.year + 1}, d \in {28, 29}}
        valid == {o \in cands : FromOrdinal(o).month = 2 /\ o > Ordinal(T)}
    IN  SetMin(valid)

\* Midnight one calendar year after the date with ordinal o (a Feb 29 goes to
\* Mar 1 where the next year has none).
OneYearAfter(o) ==
    LET d == FromOrdinal(o)
    IN  IF ValidDate(d.year + 1, d.month, d.day)
        THEN DateTime(d.year + 1, d.month, d.day, 0, 0, 0)
        ELSE DateTime(d.year + 1, 3, 1, 0, 0, 0)

\* C13: for yearly(2, 29) with interval 1, get_next_occurrence always returns an
\* instant (never None, never raises); a non-leap year is not skipped (asked before
\* its Feb 28, the answer lies in that year); and the answer is never more than one
\* calendar year after the first Feb 28/29 that follows T.
C13_LeapDayFallsBack ==
    (/\ pc = "next_done"
     /\ IsYearly(pattern)
     /\ pattern.month_of_year = 2 /\ pattern.day_of_month = 29
     /\ pattern.interval = 1
     /\ pattern.end_date = None
     /\ TimesValid(pattern))
    => /\ IsDateTime(result)
       /\ Ordinal(after_date) < ToOrdinal(after_date.year, 2, 28)
            => result.year = after_date.year
       /\ pattern.times_of_day = <<>>
            => Le(result, OneYearAfter(FirstFebAfter(after_date)))

\* C14: from_dict(P.to_dict()) succeeds and gives a pattern equal to P in every
\* field (kind, interval, weekdays, times_of_day, day_of_month, month_of_year,
\* monthly_type, weekday, week_of_month, end_date, max_occurrences).
C14_RoundTrip ==
    (pc = "built" /\ pattern # None) => built = pattern

\* A weekly pattern with an end_date went through its dictionary and came back.
C14_Witness ==
    /\ pc = "built"
    /\ IsWeekly(pattern) /\ pattern.weekdays = <<0, 2, 4>>
    /\ pattern.times_of_day = <<T0900, T2100>>
    /\ pattern.max_occurrences = 2
    /\ data.recurrence_type = "weekly"
    /\ data.end_date = isoformat(DateTime(2025, 1, 28, 9, 0, 0))
    /\ built # ValueError
    /\ built.end_date = DateTime(2025, 1, 28, 9, 0, 0)

\* The constructor was called with these keyword arguments.
Constructed == pc = "built" /\ args # None /\ args # ValueError

\* C15: a supplied day_of_month outside 1..31, month_of_year outside 1..12, or
\* week_of_month that is 0 or outside -5..5 (0 included for all three) makes the
\* construction fail with a validation error.
C15_RangedFieldsValidated ==
    (/\ Constructed
     /\ \/ args.day_of_month # NoneInt /\ args.day_of_month \notin 1..31
        \/ args.month_of_year # NoneInt /\ args.month_of_year \notin 1..12
        \/ args.week_of_month # NoneInt
             /\ (args.week_of_month = 0 \/ args.week_of_month \notin -5..5))
    => built = ValueError

\* C16: interval < 1, an element of weekdays outside 0..6, or weekday outside 0..6
\* makes every construction (direct, builder, from_dict) fail with a validation
\* error and yield no pattern.
C16_IntervalAndWeekdaysValidated ==
    (/\ Constructed
     /\ \/ args.interval < 1
        \/ \E i \in 1..Len(args.weekdays) : args.weekdays[i] \notin 0..6
        \/ args.weekday # NoneInt /\ args.weekday \notin 0..6)
    => built = ValueError

\* from_dict refuses a stored weekly pattern whose weekdays hold 7.
C16_Witness ==
    /\ pc = "built"
    /\ data # None
    /\ data.recurrence_type = "weekly" /\ data.weekdays = <<7>> /\ data.interval = 1
    /\ args # ValueError
    /\ args.weekdays = <<7>>
    /\ built = ValueError

\* C17: for a pattern that passed validation, neither get_next_occurrence nor
\* get_occurrences_in_range raises at call time.
C17_CalculatorNeverRaises ==
    pattern # None => /\ pc # "raised"
                      /\ pc = "next_done" => result # ValueError

\* C18: for a Daily pattern with empty times_of_day and T before any end_date,
\* get_next_occurrence returns T + interval days with T's wall-clock time.
C18_DailyAddsInterval ==
    (/\ pc = "next_done"
     /\ IsDaily(pattern)
     /\ pattern.times_of_day = <<>>
     /\ BeforeEnd(pattern, after_date))
    => /\ IsDateTime(result)
       /\ Ordinal(result) = Ordinal(after_date) + pattern.interval
       /\ result.hour = after_date.hour
       /\ result.minute = after_date.minute
       /\ result.second = after_date.second

\* Every other day from 2025-01-31T09:00:30: 2025-02-02T09:00:30.
C18_Witness ==
    /\ pc = "next_done"
    /\ IsDaily(pattern) /\ pattern.interval = 2 /\ pattern.times_of_day = <<>>
    /\ pattern.end_date = None
    /\ after_date = DateTime(2025, 1, 31, 9, 0, 30)
    /\ result = DateTime(2025, 2, 2, 9, 0, 30)

\* C19: for a Daily pattern with times_of_day (in any order): if a configured time
\* on after's date is later than after, the answer is the earliest such instant;
\* if none is, it is the first listed time on the date interval days later.
C19_DailyTimesEarliestSameDay ==
    (/\ pc = "next_done"
     /\ IsDaily(pattern)
     /\ pattern.times_of_day # <<>>
     /\ TimesValid(pattern)
     /\ BeforeEnd(pattern, after_date))
    => LET ts == pattern.times_of_day
           at(base, i) == DateTime(base.year, base.month, base.day,
                                   HourOf(ts[i]), MinuteOf(ts[i]), 0)
           sameDay == {at(after_date, i) : i \in 1..Len(ts)}
           laterStrict == {t \in sameDay : Gt(t, after_date)}
       IN  IF laterStrict # {}
           THEN result \in laterStrict /\ \A t \in laterStrict : Le(result, t)
           ELSE result = at(AddDays(after_date, pattern.interval), 1)

\* The caller holds a pattern and is in, or between, calls of the calculator.
InCalculator == pc \in {"idle", "next_done", "loop", "returned", "raised", "hung"}

IsNthWeekday(year, month, d, wd, n) ==
    /\ (ToOrdinal(year, month, d) + 6) % 7 = wd
    /\ IF n > 0 THEN ((d - 1) \div 7) + 1 = n
       ELSE ((DaysInMonth(year, month) - d) \div 7) + 1 = -n

\* C21: for a Monthly ByWeekdayOfMonth pattern every instant get_next_occurrence
\* returns is the week_of_month-th pattern.weekday of its month, on a date later
\* than after's date; and _find_weekday_in_month, for every weekday and ordinal in
\* after's month and the next, gives that day, or None exactly when there is none.
C21_WeekdayOrdinalExact ==
    (pc = "next_done" /\ IsMonthlyByWeekday(pattern))
    => /\ IsDateTime(result)
            => /\ IsNthWeekday(result.year, result.month, result.day,
                               pattern.weekday, pattern.week_of_month)
               /\ Ordinal(result) > Ordinal(after_date)
       /\ (pattern.interval = 1 /\ pattern.times_of_day = <<>>
           /\ pattern.end_date = None /\ pattern.max_occurrences = NoneInt)
          => \A k \in 0..1, wd \in 0..6, n \in (-5..5) \ {0} :
            LET m == AdvanceMonths(after_date.year, after_date.month, k)
                found == _find_weekday_in_month(m.year, m.month, wd, n)
            IN  IF OrdinalExists(m.year, m.month, wd, n)
                THEN /\ found # None
                     /\ found.year = m.year /\ found.month = m.month
                     /\ IsNthWeekday(m.year, m.month, found.day, wd, n)
                ELSE found = None

\* The last Friday of January 2025, asked on Saturday the 25th.
C21_Witness ==
    /\ pc = "next_done"
    /\ IsMonthlyByWeekday(pattern)
    /\ pattern.weekday = 4 /\ pattern.week_of_month = -1 /\ pattern.interval = 1
    /\ pattern.times_of_day = <<>>
    /\ after_date = DateTime(2025, 1, 25, 8, 0, 0)
    /\ result = DateTime(2025, 1, 31, 8, 0, 0)

\* The instant t has one of the pattern's times of day, with zero seconds.
AtConfiguredTime(p, t) ==
    /\ t.second = 0
    /\ \E i \in 1..Len(p.times_of_day) :
         t.hour = HourOf(p.times_of_day[i]) /\ t.minute = MinuteOf(p.times_of_day[i])

\* C22: with non-empty times_of_day, every instant get_next_occurrence returns and
\* every element of an enumeration has a configured time of day and zero seconds;
\* an answer on another date than after's has the first listed time.
C22_TimeIsConfigured ==
    (pattern # None /\ pattern.times_of_day # <<>>)
    => /\ (pc = "next_done" /\ IsDateTime(result))
            => /\ AtConfiguredTime(pattern, result)
               /\ ~SameDate(result, after_date)
                    => /\ result.hour = HourOf(pattern.times_of_day[1])
                       /\ result.minute = MinuteOf(pattern.times_of_day[1])
       /\ \A i \in 1..Len(occurrences) : AtConfiguredTime(pattern, Occ(i))

\* Mon/Wed/Fri at 21:00 and 09:00, asked Monday 22:00: Wednesday at 21:00.
C22_Witness ==
    /\ pc = "next_done"
    /\ IsWeekly(pattern) /\ pattern.weekdays = <<0, 2, 4>> /\ pattern.interval = 1
    /\ pattern.times_of_day = <<T2100, T0900>>
    /\ after_date = DateTime(2025, 1, 27, 22, 0, 0)
    /\ result = DateTime(2025, 1, 29, 21, 0, 0)

\* C23: get_next_occurrence terminates for every validated pattern and every
\* instant, and so does every enumeration built on it.
C23_NextTerminates ==
    pattern # None => /\ pc = "next_done" => result # Hang
                      /\ pc # "hung"

\* C24: for a Monthly ByDayOfMonth pattern, an answer outside after's month lies a
\* positive multiple of interval months after after's month.
C24_MonthsInIntervalSteps ==
    (/\ pc = "next_done"
     /\ IsMonthlyByDate(pattern)
     /\ IsDateTime(result)
     /\ ~(result.year = after_date.year /\ result.month = after_date.month))
    => LET months == 12 * (result.year - after_date.year)
                       + result.month - after_date.month
       IN  months > 0 /\ months % pattern.interval = 0


(***************************************************************************)
(* Properties of the generation pass.                                      *)
(***************************************************************************)
AllTimesValid ==
    \A id \in TemplateIds : TimesValid(recurrence_pattern(templates[id]))

\* C25: a generation pass terminates: every pass under way, over templates whose
\* times of day are well formed, eventually returns (the inner loop sees None or an
\* occurrence later than current_time).
C25_PassTerminates ==
    \A w \in Workers :
        (worker[w].pc # "idle" /\ AllTimesValid) ~> (worker[w].pc = "idle")

NoDuplicates ==
    \A i, j \in 1..Len(todos) : i # j => todos[i] # todos[j]

FirstNow == DateTime(2025, 1, 26, 8, 0, 0)

\* The single worker is about to return from the second pass, read at the same
\* current time as the first, with no template updated in between.
RepeatedPass ==
    /\ nworkers = 1
    /\ worker[1].pc = "commit"
    /\ worker[1].passes = 2
    /\ worker[1].current_time = FirstNow
    /\ \A id \in TemplateIds : templates[id].updated_at = 0

\* C26: after sequential passes no two todos share (recurring_template_id,
\* deadline), and a pass repeated at the same current time creates no todo, unless
\* the pass before it stopped at the safety check of the loop.
C26_SequentialNoDuplicates ==
    /\ [](nworkers = 1 => NoDuplicates)
    /\ [][RepeatedPass /\ Len(todos) <= GeneratedCap => todos' = todos]_vars

C26_Witness ==
    /\ RepeatedPass
    /\ todos # <<>>
    /\ Len(todos) <= GeneratedCap
    /\ worker[1].generated = <<>>

\* C26 as stated: after sequential passes no two todos share
\* (recurring_template_id, deadline), and a pass repeated at the same current time
\* creates no todo.
C26_RepeatCreatesNothing ==
    /\ [](nworkers = 1 => NoDuplicates)
    /\ [][RepeatedPass => todos' = todos]_vars

\* C27: every todo of a pass has a deadline not later than the pass's
\* current_time, and every last_generated the pass assigns is not later than it;
\* so nothing committed is later than the latest current time.
C27_NothingFromTheFuture ==
    /\ \A w \in Workers :
         worker[w].pc # "idle" =>
           /\ \A i \in 1..Len(worker[w].generated) :
                Le(worker[w].generated[i].deadline, worker[w].current_time)
           /\ \A id \in worker[w].dirty :
                Le(worker[w].last_generated[id], worker[w].current_time)
    /\ \A i \in 1..Len(todos) : Le(todos[i].deadline, now)
    /\ now # None =>
         \A id \in TemplateIds :
           templates[id].last_generated # None => Le(templates[id].last_generated, now)

C27_Witness ==
    /\ AllIdle
    /\ now = DateTime(2025, 1, 27, 10, 0, 0)
    /\ \E i \in 1..Len(todos) : todos[i].deadline = DateTime(2025, 1, 27, 8, 0, 0)
    /\ \E id \in TemplateIds : templates[id].last_generated = DateTime(2025, 1, 27, 8, 0, 0)

\* C28: each assignment template.last_generated = next_occurrence sets the
\* watermark to an instant strictly later than its previous value.
C28_WatermarkStrictlyIncreases ==
    [][\A w \in Workers :
         (worker[w].pc = "insert" /\ worker'[w].pc # "insert") =>
           LET id == worker[w].active[worker[w].idx]
           IN  Gt(worker'[w].last_generated[id],
                  LastOrMin(worker[w].last_generated[id]))]_vars

\* C29: with two passes under way at once, no interleaving commits two todos with
\* the same (recurring_template_id, deadline).
C29_ConcurrentNoDuplicates == nworkers = 2 => NoDuplicates

\* C30: a call on an inactive template yields nothing (None, an empty list,
\* False, None with no todo added); a call on an active one, re-activated or
\* not, yields what the calculator computes from the template's pattern.
C30_InactiveYieldsNothing ==
    tcall # None =>
      LET self == templates[tcall.id]
          p == recurrence_pattern(self)
          T == tcall.arg
          next_occurrence == get_next_occurrence(p, LastOrMin(self.last_generated))
      IN  IF ~self.is_active
          THEN /\ tcall.op = "get_next_occurrence" => tcall.result = None
               /\ tcall.op = "get_upcoming_occurrences" => tcall.result = [list |-> <<>>]
               /\ tcall.op = "should_generate_instances" => tcall.result = [bool |-> FALSE]
               /\ tcall.op = "generate_todo_instance" => tcall.result = None
               /\ tcall.added = {}
          ELSE /\ tcall.op = "get_next_occurrence" =>
                    tcall.result = get_next_occurrence(p, T)
               /\ tcall.op = "get_upcoming_occurrences" =>
                    tcall.result = get_occurrences_in_range(p, T, AddDays(T, 3), 2)
               /\ tcall.op = "should_generate_instances" =>
                    tcall.result =
                      IF next_occurrence = ValueError \/ next_occurrence = Hang
                      THEN next_occurrence
                      ELSE [bool |-> next_occurrence # None /\ Le(next_occurrence, T)]
               /\ tcall.op = "generate_todo_instance" =>
                    /\ tcall.result = [recurring_template_id |-> tcall.id, deadline |-> T]
                    /\ tcall.added = {tcall.result}

C30_Witness ==
    /\ tcall # None
    /\ ~templates[tcall.id].is_active
    /\ templates[tcall.id].updated_at = 1
    /\ tcall.op = "get_upcoming_occurrences"
    /\ tcall.result = [list |-> <<>>]

=============================================================================
